---- MODULE Spec2Model ----
(***************************************************************************)
(* State-machine model of examples/files/taihu/d3d_read_map.py: main and   *)
(* readD3DWaq (bound checks, the four coordinate-resolution branches, the  *)
(* extraction of the time series and the spatial field, and the writing of *)
(* the four artifacts), saveObj, and the program being started again on   *)
(* a case directory that keeps the files of earlier invocations.           *)
(*                                                                         *)
(* Map values are floats in the program; here they are integers counted in *)
(* hundredths (2.00 is 200), and not-a-number is the distinguished code    *)
(* NaN, which every comparison treats as IEEE does (always false).         *)
(* Segment ids are 1-indexed, variable and time indices 0-indexed.         *)
(***************************************************************************)
EXTENDS Integers, Sequences, FiniteSets, TLC

(* ------------------------------ bounds --------------------------------- *)
(* MaxTime: time steps of a map file; MaxSeg: its segment count;           *)
(* MaxActive: active cells of a grid; MaxPairs: (active cell, time step)   *)
(* pairs whose value is free; MaxSeriesLen: time steps of the long series;   *)
(* MaxRuns: invocations on one case directory.                             *)
MaxTime == 2
MaxSeg == 2
MaxActive == 2
MaxPairs == 4
MaxSeriesLen == 4
MaxRuns == 2

(* ------------------------- program constants --------------------------- *)
Sentinel == -9999
DefaultSeg == 0
DefaultTime == 0
CheckDataInit == -99999999
NaN == 999999999
InactiveFill == 0

(* ------------------------- float comparisons --------------------------- *)
IsNaN(x) == x = NaN

FGt(a, b) == ~IsNaN(a) /\ ~IsNaN(b) /\ a > b

FGe(a, b) == ~IsNaN(a) /\ ~IsNaN(b) /\ a >= b

(* ------------------------------ the store ------------------------------ *)
(* A store is [nseg, ntime, varlist, value]: value[seg][v][t].             *)
VarList == [v \in 0..1 |-> IF v = 0 THEN "A" ELSE "B"]

InList(name, varlist) == \E v \in DOMAIN varlist : varlist[v] = name

IndexOf(name, varlist) ==
  CHOOSE v \in DOMAIN varlist :
    varlist[v] = name /\ \A w \in DOMAIN varlist : varlist[w] = name => v <= w

SegOk(st, seg) == seg >= 1 /\ seg <= st.nseg

TimeOk(st, t) == t >= 0 /\ t < st.ntime

AtVariableTime(st, v, t) == [s \in 1..st.nseg |-> st.value[s][v][t]]

AtSegment(st, seg) == [v \in DOMAIN st.varlist |-> st.value[seg][v]]

(* ------------------------------ the grid ------------------------------- *)
(* A grid is [nrow, ncol, gridIndex, gridX]; cells are <<i, j>>.           *)
Cells(gr) == (0..(gr.nrow - 1)) \X (0..(gr.ncol - 1))

Active(gr, c) == gr.gridIndex[c] > 0

ActiveCells(gr) == {c \in Cells(gr) : Active(gr, c)}

CellAt(gr, k) == <<k \div gr.ncol, k % gr.ncol>>

(* --------------------- lines 110-126: bound checks --------------------- *)
(* Mutant: the time bound is not checked.                                  *)
BoundCheckNoTime(st, name, seg, t) ==
  IF seg >= st.nseg THEN "seg"
  ELSE IF ~InList(name, st.varlist) THEN "var"
  ELSE "ok"

BoundCheck(st, name, seg, t) ==
  IF seg >= st.nseg THEN "seg"
  ELSE IF ~InList(name, st.varlist) THEN "var"
  ELSE IF t >= st.ntime THEN "time"
  ELSE "ok"

(* --------------- lines 176-227: which branch is taken ------------------ *)
(* Mutant: the last branch tests "not the sentinel" instead of ">= 0".     *)
DispatchLoose(seg, t) ==
  IF seg = Sentinel /\ t = Sentinel THEN "both"
  ELSE IF seg = Sentinel /\ t >= 0 THEN "seg"
  ELSE IF seg >= 0 /\ t = Sentinel THEN "time"
  ELSE IF seg # Sentinel /\ t # Sentinel THEN "given"
  ELSE "invalid"

Dispatch(seg, t) ==
  IF seg = Sentinel /\ t = Sentinel THEN "both"
  ELSE IF seg = Sentinel /\ t >= 0 THEN "seg"
  ELSE IF seg >= 0 /\ t = Sentinel THEN "time"
  ELSE IF seg >= 0 /\ t >= 0 THEN "given"
  ELSE "invalid"

(* ------ lines 180-189 and 197-204: the running-maximum scan ------------ *)
ScanStart == [checkData |-> CheckDataInit, seg |-> 0, time |-> 0, found |-> FALSE]

(* Mutant: the comparison of line 186 is >=, so the last of equal values   *)
(* is kept.                                                                *)
ScanStepGe(st, gr, v, t, c, acc) ==
  LET id == gr.gridIndex[c] IN
  IF id > 0 /\ FGe(AtVariableTime(st, v, t)[id], acc.checkData)
  THEN [checkData |-> AtVariableTime(st, v, t)[id],
        seg |-> id, time |-> t, found |-> TRUE]
  ELSE acc

ScanStep(st, gr, v, t, c, acc) ==
  LET id == gr.gridIndex[c] IN
  IF id > 0 /\ FGt(AtVariableTime(st, v, t)[id], acc.checkData)
  THEN [checkData |-> AtVariableTime(st, v, t)[id],
        seg |-> id, time |-> t, found |-> TRUE]
  ELSE acc

RECURSIVE ScanGrid(_, _, _, _, _, _)
ScanGrid(st, gr, v, t, k, acc) ==
  IF k >= gr.nrow * gr.ncol THEN acc
  ELSE ScanGrid(st, gr, v, t, k + 1, ScanStep(st, gr, v, t, CellAt(gr, k), acc))

RECURSIVE ScanTimes(_, _, _, _, _)
ScanTimes(st, gr, v, t, acc) ==
  IF t >= st.ntime THEN acc
  ELSE ScanTimes(st, gr, v, t + 1, ScanGrid(st, gr, v, t, 0, acc))

(* A resolution result: ok, or the exception that ends the run; the names  *)
(* jseg and jtime that are bound when the branch ends; the number of map   *)
(* accessor calls made to choose the coordinates.                          *)
SearchBoth(st, gr, v) ==
  LET r == ScanTimes(st, gr, v, 0, ScanStart) IN
  [ok |-> r.found, err |-> IF r.found THEN "none" ELSE "NameError",
   seg |-> r.seg, time |-> r.time,
   bound |-> IF r.found THEN {"jseg", "jtime"} ELSE {},
   reads |-> st.ntime, check |-> r.checkData]

SearchSeg(st, gr, v, t) ==
  LET r == ScanGrid(st, gr, v, t, 0, ScanStart) IN
  [ok |-> r.found, err |-> IF r.found THEN "none" ELSE "NameError",
   seg |-> r.seg, time |-> t,
   bound |-> IF r.found THEN {"jseg", "jtime"} ELSE {"jtime"},
   reads |-> 1, check |-> r.checkData]

(* ------------------------ line 215: np.nanargmax ----------------------- *)
AllNaN(s, n) == \A k \in 0..(n - 1) : IsNaN(s[k])

Better(a, b) == ~IsNaN(a) /\ (IsNaN(b) \/ a > b)

RECURSIVE ArgMaxFrom(_, _, _, _)
ArgMaxFrom(s, n, k, best) ==
  IF k >= n THEN best
  ELSE ArgMaxFrom(s, n, k + 1, IF Better(s[k], s[best]) THEN k ELSE best)

(* Mutant: np.argmax, which does not ignore not-a-number but returns the   *)
(* index of the first one.                                                 *)
NanArgMaxPlain(s, n) ==
  IF \E k \in 0..(n - 1) : IsNaN(s[k])
  THEN [ok |-> TRUE,
        idx |-> CHOOSE k \in 0..(n - 1) :
                  IsNaN(s[k]) /\ \A j \in 0..(k - 1) : ~IsNaN(s[j])]
  ELSE [ok |-> TRUE, idx |-> ArgMaxFrom(s, n, 1, 0)]

(* Mutant: an all-not-a-number series yields index 0 instead of raising.   *)
NanArgMaxNoRaise(s, n) == [ok |-> TRUE, idx |-> ArgMaxFrom(s, n, 1, 0)]

NanArgMax(s, n) ==
  IF AllNaN(s, n) THEN [ok |-> FALSE, idx |-> 0]
  ELSE [ok |-> TRUE, idx |-> ArgMaxFrom(s, n, 1, 0)]

SearchTime(st, v, seg) ==
  IF ~SegOk(st, seg)
  THEN [ok |-> FALSE, err |-> "IndexError", seg |-> seg, time |-> 0,
        bound |-> {"jseg"}, reads |-> 1, check |-> CheckDataInit]
  ELSE LET m == NanArgMax(AtSegment(st, seg)[v], st.ntime) IN
       [ok |-> m.ok, err |-> IF m.ok THEN "none" ELSE "ValueError:nanargmax",
        seg |-> seg, time |-> m.idx,
        bound |-> IF m.ok THEN {"jseg", "jtime"} ELSE {"jseg"},
        reads |-> 1, check |-> CheckDataInit]

(* Mutant: the two coordinates are assigned crosswise.                     *)
BothGivenSwapped(seg, t) ==
  [ok |-> TRUE, err |-> "none", seg |-> t, time |-> seg,
   bound |-> {"jseg", "jtime"}, reads |-> 0, check |-> CheckDataInit]

BothGiven(seg, t) ==
  [ok |-> TRUE, err |-> "none", seg |-> seg, time |-> t,
   bound |-> {"jseg", "jtime"}, reads |-> 0, check |-> CheckDataInit]

(* ------------------- lines 238-277: the two views ---------------------- *)
Series(st, v, seg) == AtSegment(st, seg)[v]

Field(st, gr, v, t) ==
  [c \in Cells(gr) |->
     IF gr.gridX[c] = 0 THEN NaN
     ELSE IF gr.gridIndex[c] > 0 THEN AtVariableTime(st, v, t)[gr.gridIndex[c]]
     ELSE InactiveFill]

NanSum(f) ==
  LET RECURSIVE Sum(_)
      Sum(S) == IF S = {} THEN 0
                ELSE LET c == CHOOSE x \in S : TRUE
                     IN (IF IsNaN(f[c]) THEN 0 ELSE f[c]) + Sum(S \ {c})
  IN Sum(DOMAIN f)

NanCount(f) == Cardinality({c \in DOMAIN f : ~IsNaN(f[c])})

(* Mutant: the maximum is taken to be the first entry.                     *)
NanMaxFirst(s, n) == s[0]

(* lines 323-325: np.nanmax *)
NanMax(s, n) == IF AllNaN(s, n) THEN NaN ELSE s[ArgMaxFrom(s, n, 1, 0)]

(* ------------------------------ the inputs ----------------------------- *)
(* Values in hundredths: not-a-number, -1000000.00 (below the comparison  *)
(* floor of line 180), -1.00, 0.00 and 2.00.                               *)
Values == {NaN, -100000000, -100, 0, 200}

(* The values of the long series: not-a-number, 1.00, 3.00, 5.00.          *)
SeriesValues == {NaN, 100, 300, 500}

(* Variable "B" is fixed: 3.00, 4.00 at segment 1, 7.00, 8.00 at 2, ...    *)
BValue(s, t) == 400 * s + 100 * t - 100

StoreOf(nseg, ntime, a) ==
  [nseg |-> nseg, ntime |-> ntime, varlist |-> VarList,
   value |-> [s \in 1..nseg |->
                [v \in 0..1 |->
                   IF v = 0 THEN a[s]
                   ELSE [t \in 0..(ntime - 1) |-> BValue(s, t)]]]]

(* The store whose variable "A" is f on the segments in live and holds     *)
(* 2.00 on every other segment.                                            *)
StoreWith(nseg, ntime, live, f) ==
  StoreOf(nseg, ntime,
          [s \in 1..nseg |->
             IF s \in live THEN f[s] ELSE [t \in 0..(ntime - 1) |-> 200]])

Shapes == {<<1, 2>>, <<2, 2>>}

(* Active cells carry distinct segment ids in [1, nseg].                   *)
Injective(g, C) ==
  \A c \in C : \A d \in C : (g[c] > 0 /\ g[c] = g[d]) => c = d

IndexMaps(nrow, ncol, nseg) ==
  LET C == (0..(nrow - 1)) \X (0..(ncol - 1)) IN
  {g \in [C -> 0..nseg] :
     Injective(g, C) /\ Cardinality({c \in C : g[c] > 0}) <= MaxActive}

(* Two layouts of the x coordinate: "conv" has x = 0 exactly at the        *)
(* inactive cells, "col" has x = column number.                            *)
GridOf(nrow, ncol, g, layout) ==
  [nrow |-> nrow, ncol |-> ncol, gridIndex |-> g,
   gridX |-> [c \in DOMAIN g |->
                IF layout = "conv" THEN (IF g[c] > 0 THEN c[2] + 1 ELSE 0)
                ELSE c[2]]]

Ids(g) == {g[c] : c \in {d \in DOMAIN g : g[d] > 0}}

Argv(v, hasP, p, hasT, t) == [v |-> v, hasP |-> hasP, p |-> p, hasT |-> hasT, t |-> t]

SeriesGrid ==
  GridOf(1, 2, [c \in (0..0) \X (0..1) |-> IF c[2] = 0 THEN 1 ELSE 0], "conv")

(* The 2 x 2 scenario: seg 1 at (0,0), seg 2 at (1,1); A = [1,2], [5,6].   *)
ScenarioStore ==
  StoreOf(2, 2, [s \in 1..2 |-> [t \in 0..1 |-> 400 * s + 100 * t - 300]])

ScenarioGrid ==
  GridOf(2, 2, [c \in (0..1) \X (0..1) |->
                  IF c = <<0, 0>> THEN 1 ELSE IF c = <<1, 1>> THEN 2
                  ELSE IF c = <<1, 0>> THEN -1 ELSE 0], "conv")

Coords == {Sentinel, -1, 0, 1, 2, 3}

(* ------------------------------ the state ------------------------------ *)
VARIABLES
  argv,      \* the command line: variable name, -p and -t flags
  store,     \* the map file
  grid,      \* the topology file
  pc,        \* position in main / readD3DWaq
  varName, iseg, itime,   \* the arguments readD3DWaq is called with
  ivar,      \* index of varName in the variable list
  branch,    \* the resolution branch taken
  jseg, jtime, bound,     \* resolved coordinates, and which of them are bound
  mapReads,  \* map accessor calls made by the resolution branch
  dataHis, dataMap,       \* the series and the field
  hisFig, mapFig, jsonDoc, objFile,   \* the four artifacts
  exitCode, err,
  run,       \* number of the invocation on this case directory
  wrote      \* the artifacts the current invocation has opened for writing

vars == <<argv, store, grid, pc, varName, iseg, itime, ivar, branch, jseg, jtime,
          bound, mapReads, dataHis, dataMap, hisFig, mapFig, jsonDoc, objFile,
          exitCode, err, run, wrote>>

inputVars == <<argv, store, grid, run>>

callVars == <<varName, iseg, itime>>

selVars == <<branch, jseg, jtime, bound, mapReads>>

viewVars == <<dataHis, dataMap>>

fileVars == <<hisFig, mapFig, jsonDoc, objFile, wrote>>

NoHis == [exists |-> FALSE, nameSeg |-> 0, titleSeg |-> 0]

NoMap == [exists |-> FALSE, nameTime |-> 0, titleTime |-> 0]

NoJson == [exists |-> FALSE, nameTime |-> 0, iseg |-> 0, itime |-> 0]

NoObj ==
  [exists |-> FALSE, written |-> FALSE, sum |-> 0, cnt |-> 0, max |-> 0,
   seg |-> 0, time |-> 0]

(* line 314: the file as open(..., 'wt') leaves it before the write.       *)
EmptyObj == [NoObj EXCEPT !.exists = TRUE]

OldObj ==
  [exists |-> TRUE, written |-> TRUE, sum |-> 0, cnt |-> 1, max |-> 0,
   seg |-> 1, time |-> 0]

Start(a, st, gr, pre) ==
  /\ argv = a
  /\ store = st
  /\ grid = gr
  /\ objFile = IF pre THEN OldObj ELSE NoObj
  /\ pc = "main"
  /\ varName = ""
  /\ iseg = 0
  /\ itime = 0
  /\ ivar = 0
  /\ branch = "none"
  /\ jseg = 0
  /\ jtime = 0
  /\ bound = {}
  /\ mapReads = 0
  /\ dataHis = <<>>
  /\ dataMap = <<>>
  /\ hisFig = NoHis
  /\ mapFig = NoMap
  /\ jsonDoc = NoJson
  /\ exitCode = 0
  /\ err = "none"
  /\ run = 1
  /\ wrote = {}

(* Segment unspecified: every grid, every store on its active segments.    *)
InitSearch ==
  \E sh \in Shapes : \E n \in 1..MaxTime :
    \E g \in IndexMaps(sh[1], sh[2], MaxSeg) :
      /\ Cardinality(Ids(g)) * n <= MaxPairs
      /\ \E f \in [Ids(g) -> [0..(n - 1) -> Values]] :
           \E t \in {Sentinel} \cup (0..(n - 1)) :
             Start(Argv("A", TRUE, Sentinel, TRUE, t),
                   StoreWith(MaxSeg, n, Ids(g), f),
                   GridOf(sh[1], sh[2], g, "conv"), FALSE)

(* Segment given: one row of cells, both layouts, the given segment free.  *)
InitGiven ==
  \E n \in 1..MaxTime : \E seg \in 0..(MaxSeg - 1) :
    \E g \in IndexMaps(1, 2, MaxSeg) :
      \E f \in [{seg} \cap (1..MaxSeg) -> [0..(n - 1) -> Values]] :
        \E t \in {Sentinel} \cup (0..(n - 1)) : \E layout \in {"conv", "col"} :
          Start(Argv("A", TRUE, seg, TRUE, t),
                StoreWith(MaxSeg, n, {seg} \cap (1..MaxSeg), f),
                GridOf(1, 2, g, layout), FALSE)

(* One long series at segment 1.                                           *)
InitSeries ==
  \E n \in 1..MaxSeriesLen : \E f \in [{1} -> [0..(n - 1) -> SeriesValues]] :
    Start(Argv("A", TRUE, 1, TRUE, Sentinel), StoreWith(2, n, {1}, f),
          SeriesGrid, FALSE)

(* The scenario, with every combination of flags and coordinates.          *)
InitScenario ==
  \E v \in {"A", "B", "C", ""} : \E hasP \in BOOLEAN : \E hasT \in BOOLEAN :
    \E p \in IF hasP THEN Coords ELSE {DefaultSeg} :
      \E t \in IF hasT THEN Coords ELSE {DefaultTime} : \E pre \in BOOLEAN :
        Start(Argv(v, hasP, p, hasT, t), ScenarioStore, ScenarioGrid, pre)

Init == InitSearch \/ InitGiven \/ InitSeries \/ InitScenario

(* sys.exit(1), or an uncaught exception: the run ends with status 1.      *)
Fail(e) == pc' = "exit" /\ exitCode' = 1 /\ err' = e

(* lines 57-88: main parses the flags and calls readD3DWaq.                *)
Main ==
  /\ pc = "main"
  /\ varName' = argv.v
  /\ iseg' = IF argv.hasP THEN argv.p ELSE DefaultSeg
  /\ itime' = IF argv.hasT THEN argv.t ELSE DefaultTime
  /\ pc' = IF argv.v # "" THEN "check" ELSE "done"
  /\ UNCHANGED <<inputVars, ivar, selVars, viewVars, fileVars, exitCode, err>>

(* lines 103-126 *)
CheckBounds ==
  /\ pc = "check"
  /\ LET c == BoundCheck(store, varName, iseg, itime) IN
       IF c = "ok"
       THEN /\ ivar' = IndexOf(varName, store.varlist)
            /\ pc' = "select"
            /\ UNCHANGED <<exitCode, err>>
       ELSE /\ Fail(IF c = "var" THEN "VarExit" ELSE "IndexExit")
            /\ UNCHANGED ivar
  /\ UNCHANGED <<inputVars, callVars, selVars, viewVars, fileVars>>

Resolved(b, r) ==
  /\ branch' = b
  /\ jseg' = r.seg
  /\ jtime' = r.time
  /\ bound' = r.bound
  /\ mapReads' = r.reads
  /\ IF r.ok THEN pc' = "extract" /\ UNCHANGED <<exitCode, err>> ELSE Fail(r.err)
  /\ UNCHANGED <<inputVars, callVars, ivar, viewVars, fileVars>>

(* lines 176-190 *)
ResolveBoth ==
  /\ pc = "select"
  /\ Dispatch(iseg, itime) = "both"
  /\ Resolved("both", SearchBoth(store, grid, ivar))

(* lines 192-205 *)
ResolveSeg ==
  /\ pc = "select"
  /\ Dispatch(iseg, itime) = "seg"
  /\ Resolved("seg", SearchSeg(store, grid, ivar, itime))

(* lines 207-216 *)
ResolveTime ==
  /\ pc = "select"
  /\ Dispatch(iseg, itime) = "time"
  /\ Resolved("time", SearchTime(store, ivar, iseg))

(* lines 218-223 *)
ResolveGiven ==
  /\ pc = "select"
  /\ Dispatch(iseg, itime) = "given"
  /\ Resolved("given", BothGiven(iseg, itime))

(* lines 225-227 *)
ResolveInvalid ==
  /\ pc = "select"
  /\ Dispatch(iseg, itime) = "invalid"
  /\ branch' = "invalid"
  /\ Fail("InvalidCoordinate")
  /\ UNCHANGED <<inputVars, callVars, ivar, jseg, jtime, bound, mapReads,
                 viewVars, fileVars>>

(* lines 230-277: the accessor rejects a segment outside [1, nseg]; the    *)
(* field of a grid without active cells is an integer array, which cannot  *)
(* take not-a-number (line 268).                                           *)
ExtractOutcome(st, gr, seg) ==
  IF ~SegOk(st, seg) THEN "IndexError"
  ELSE IF ActiveCells(gr) = {} THEN "ValueError:field"
  ELSE "ok"

Extract ==
  /\ pc = "extract"
  /\ LET o == ExtractOutcome(store, grid, jseg) IN
       IF o = "ok"
       THEN /\ dataHis' = Series(store, ivar, jseg)
            /\ dataMap' = Field(store, grid, ivar, jtime)
            /\ pc' = "hisfig"
            /\ UNCHANGED <<exitCode, err>>
       ELSE /\ Fail(o)
            /\ UNCHANGED viewVars
  /\ UNCHANGED <<inputVars, callVars, ivar, selVars, fileVars>>

(* line 282; the file name was built from iseg on line 137, the title from *)
(* jseg on line 230.                                                       *)
SavePlotHis ==
  /\ pc = "hisfig"
  /\ hisFig' = [exists |-> TRUE, nameSeg |-> iseg, titleSeg |-> jseg]
  /\ pc' = "mapfig"
  /\ wrote' = wrote \cup {"his"}
  /\ UNCHANGED <<inputVars, callVars, ivar, selVars, viewVars, mapFig, jsonDoc,
                 objFile, exitCode, err>>

(* line 283 *)
SavePlotMap ==
  /\ pc = "mapfig"
  /\ mapFig' = [exists |-> TRUE, nameTime |-> itime, titleTime |-> jtime]
  /\ pc' = "json"
  /\ wrote' = wrote \cup {"map"}
  /\ UNCHANGED <<inputVars, callVars, ivar, selVars, viewVars, hisFig, jsonDoc,
                 objFile, exitCode, err>>

(* line 284 *)
SaveJsonMap ==
  /\ pc = "json"
  /\ jsonDoc' = [exists |-> TRUE, nameTime |-> itime, iseg |-> jseg, itime |-> jtime]
  /\ pc' = "obj"
  /\ wrote' = wrote \cup {"json"}
  /\ UNCHANGED <<inputVars, callVars, ivar, selVars, viewVars, hisFig, mapFig,
                 objFile, exitCode, err>>

(* lines 313-325 *)
ObjRecord(field, series, n, seg, t) ==
  [exists |-> TRUE, written |-> TRUE, sum |-> NanSum(field),
   cnt |-> NanCount(field), max |-> NanMax(series, n), seg |-> seg, time |-> t]

(* Mutant: the objective file is taken to be missing whatever is there.    *)
ObjMissingAlways(obj) == TRUE

(* line 285: os.path.isfile(objfunFname) *)
ObjMissing(obj) == ~obj.exists

(* Mutant: the mean or the maximum of values that are all not-a-number    *)
(* raises, inside the with block of line 314.                              *)
ObjOutcomeRaise(field, series, n) ==
  IF NanCount(field) = 0 \/ AllNaN(series, n) THEN "ValueError:empty" ELSE "ok"

(* lines 315-316, 319-325: np.nanmean and np.nanmax return nan for values  *)
(* that are all not-a-number; the warning they give is filtered (line 38). *)
ObjOutcome(field, series, n) == "ok"

(* lines 285-286, 313-317: the file is opened for writing before the mean  *)
(* and the maximum are computed.                                           *)
SaveObj ==
  /\ pc = "obj"
  /\ ObjMissing(objFile)
  /\ wrote' = wrote \cup {"obj"}
  /\ LET o == ObjOutcome(dataMap, dataHis, store.ntime) IN
       IF o = "ok"
       THEN /\ objFile' = ObjRecord(dataMap, dataHis, store.ntime, jseg, jtime)
            /\ pc' = "done"
            /\ UNCHANGED <<exitCode, err>>
       ELSE /\ objFile' = EmptyObj
            /\ Fail(o)
  /\ UNCHANGED <<inputVars, callVars, ivar, selVars, viewVars, hisFig, mapFig,
                 jsonDoc>>

SkipObj ==
  /\ pc = "obj"
  /\ ~ObjMissing(objFile)
  /\ pc' = "done"
  /\ UNCHANGED <<inputVars, callVars, ivar, selVars, viewVars, fileVars,
                 exitCode, err>>

(* The command lines of a later invocation.                                *)
ReArgs ==
  {Argv(v, TRUE, p, TRUE, t) : v \in {"A", "B"}, p \in {Sentinel, 1, 2},
                               t \in {Sentinel, 0, 1}}

(* The case directory that is run more than once: the scenario's.          *)
RerunCase(st, gr) == st = ScenarioStore /\ gr = ScenarioGrid

(* The program is started again on the same case directory: the map file,  *)
(* the grid and the files written so far stay, everything else is new.     *)
Reinvoke ==
  /\ pc \in {"done", "exit"}
  /\ run < MaxRuns
  /\ RerunCase(store, grid)
  /\ run' = run + 1
  /\ argv' \in ReArgs
  /\ pc' = "main"
  /\ varName' = ""
  /\ iseg' = 0
  /\ itime' = 0
  /\ ivar' = 0
  /\ branch' = "none"
  /\ jseg' = 0
  /\ jtime' = 0
  /\ bound' = {}
  /\ mapReads' = 0
  /\ dataHis' = <<>>
  /\ dataMap' = <<>>
  /\ exitCode' = 0
  /\ err' = "none"
  /\ wrote' = {}
  /\ UNCHANGED <<store, grid, hisFig, mapFig, jsonDoc, objFile>>

Next ==
  \/ Main
  \/ CheckBounds
  \/ ResolveBoth
  \/ ResolveSeg
  \/ ResolveTime
  \/ ResolveGiven
  \/ ResolveInvalid
  \/ Extract
  \/ SavePlotHis
  \/ SavePlotMap
  \/ SaveJsonMap
  \/ SaveObj
  \/ SkipObj
  \/ Reinvoke

Spec == Init /\ [][Next]_vars

(* ============================== claims ================================= *)
Called == pc # "main" /\ varName # ""

Bound2 == {"jseg", "jtime"} \subseteq bound

NoArtifact ==
  /\ ~hisFig.exists
  /\ ~mapFig.exists
  /\ ~jsonDoc.exists
  /\ objFile \in {NoObj, OldObj}

ValAt(seg, t) == store.value[seg][ivar][t]

Times == 0..(store.ntime - 1)

CoordOk(x) == x = Sentinel \/ x >= 0

FourBranches == {"both", "seg", "time", "given"}

(* C1: with both coordinates unspecified and an active cell holding a real *)
(* value, a pair is resolved, it is an active cell's segment and a time    *)
(* step, and its value is >= every real value of an active cell at any     *)
(* time step.                                                              *)
C1_GlobalMax ==
  (/\ branch = "both"
   /\ \E c \in ActiveCells(grid) : \E t \in Times :
        ~IsNaN(ValAt(grid.gridIndex[c], t)))
  => /\ Bound2
     /\ \E c \in ActiveCells(grid) : grid.gridIndex[c] = jseg
     /\ jtime \in Times
     /\ \A c \in ActiveCells(grid) : \A t \in Times :
          \/ IsNaN(ValAt(grid.gridIndex[c], t))
          \/ FGe(ValAt(jseg, jtime), ValAt(grid.gridIndex[c], t))

(* C2: with the segment unspecified and a time given, the time is resolved *)
(* unchanged and the segment is an active cell's id whose value at that    *)
(* time is >= the real value of every other active cell at that time.      *)
C2_SegSearch ==
  (/\ branch = "seg"
   /\ \E c \in ActiveCells(grid) : ~IsNaN(ValAt(grid.gridIndex[c], itime)))
  => /\ Bound2
     /\ jtime = itime
     /\ \E c \in ActiveCells(grid) : grid.gridIndex[c] = jseg
     /\ \A c \in ActiveCells(grid) :
          \/ IsNaN(ValAt(grid.gridIndex[c], itime))
          \/ FGe(ValAt(jseg, itime), ValAt(grid.gridIndex[c], itime))

(* C3: with a segment given and the time unspecified, the segment is       *)
(* resolved unchanged and the time is an index of the greatest value of    *)
(* the variable's series at that segment, not-a-number entries ignored;    *)
(* for the series [1.0, 5.0, NaN, 3.0] the index is 1.                     *)
ExampleSeries == [t \in 0..3 |-> IF t = 0 THEN 100 ELSE IF t = 1 THEN 500
                                 ELSE IF t = 2 THEN NaN ELSE 300]

C3_TimeSearch ==
  (/\ branch = "time"
   /\ SegOk(store, iseg)
   /\ \E t \in Times : ~IsNaN(ValAt(iseg, t)))
  => /\ Bound2
     /\ err # "ValueError:nanargmax"
     /\ jseg = iseg
     /\ jtime \in Times
     /\ ~IsNaN(ValAt(iseg, jtime))
     /\ \A t \in Times : IsNaN(ValAt(iseg, t)) \/ ValAt(iseg, jtime) >= ValAt(iseg, t)
     /\ (store.ntime = 4 /\ store.value[iseg][ivar] = ExampleSeries) => jtime = 1

C3_Witness ==
  /\ branch = "time"
  /\ pc = "extract"
  /\ store.ntime = 4
  /\ store.value[iseg][ivar] = ExampleSeries
  /\ jtime = 1

(* C4: with both coordinates given (>= 0) and the bound checks passed, the *)
(* pair is resolved to exactly (iseg, itime) and no map accessor is called *)
(* to choose it.                                                           *)
C4_PassThrough ==
  /\ (branch # "none" /\ iseg >= 0 /\ itime >= 0) => branch = "given"
  /\ branch = "given"
       => /\ Bound2
          /\ jseg = iseg
          /\ jtime = itime
          /\ mapReads = 0

C4_Witness ==
  /\ branch = "given"
  /\ pc = "done"
  /\ iseg = 1
  /\ itime = 0
  /\ jseg = 1
  /\ jtime = 0

(* C5, as stated: for every pair of coordinates, a finished call has taken *)
(* one of the four branches exactly when each coordinate is the sentinel   *)
(* or non-negative, and any other pair ends in the invalid-coordinate      *)
(* failure with nothing resolved and nothing written.                      *)
C5_Original ==
  (Called /\ pc \in {"done", "exit"} /\ InList(varName, store.varlist))
  => /\ (branch \in FourBranches) <=> (CoordOk(iseg) /\ CoordOk(itime))
     /\ ~(CoordOk(iseg) /\ CoordOk(itime))
          => (err = "InvalidCoordinate" /\ bound = {} /\ NoArtifact)

(* C5, amended: for every pair of coordinates that passes the checks of    *)
(* lines 110-126 (variable listed, iseg < nseg, itime < ntime), the call   *)
(* takes one of the four branches exactly when each coordinate is the      *)
(* sentinel or non-negative, and any other pair ends in the                *)
(* invalid-coordinate failure with nothing resolved and nothing written.   *)
C5_Dispatch ==
  (/\ Called
   /\ pc \notin {"check", "select"}
   /\ InList(varName, store.varlist)
   /\ iseg < store.nseg
   /\ itime < store.ntime)
  => /\ (branch \in FourBranches) <=> (CoordOk(iseg) /\ CoordOk(itime))
     /\ (iseg = Sentinel /\ itime = Sentinel) => branch = "both"
     /\ (iseg = Sentinel /\ itime >= 0) => branch = "seg"
     /\ (iseg >= 0 /\ itime = Sentinel) => branch = "time"
     /\ (iseg >= 0 /\ itime >= 0) => branch = "given"
     /\ ~(CoordOk(iseg) /\ CoordOk(itime))
          => /\ branch = "invalid"
             /\ pc = "exit"
             /\ exitCode = 1
             /\ err = "InvalidCoordinate"
             /\ bound = {}
             /\ NoArtifact

C5_Witness ==
  /\ branch = "invalid"
  /\ pc = "exit"
  /\ iseg = -1
  /\ itime = Sentinel
  /\ err = "InvalidCoordinate"

(* C6: with a segment given, the time unspecified and a series that is     *)
(* not-a-number throughout, the call fails in the selection (the           *)
(* ValueError of np.nanargmax) and resolves no time index.                 *)
C6_AllNaNFails ==
  (/\ branch = "time"
   /\ SegOk(store, iseg)
   /\ \A t \in Times : IsNaN(ValAt(iseg, t)))
  => /\ pc = "exit"
     /\ err = "ValueError:nanargmax"
     /\ exitCode = 1
     /\ "jtime" \notin bound
     /\ NoArtifact

C6_Witness ==
  /\ branch = "time"
  /\ pc = "exit"
  /\ err = "ValueError:nanargmax"
  /\ store.ntime = 2
  /\ \A t \in Times : IsNaN(ValAt(iseg, t))

(* C7: a call whose variable is not in the list, or whose segment exceeds  *)
(* nseg, or whose time exceeds ntime, ends with a non-zero exit status     *)
(* before any coordinate is resolved and before any artifact is written.   *)
C7_ExitOnBadInput ==
  (/\ Called
   /\ pc # "check"
   /\ \/ ~InList(varName, store.varlist)
      \/ iseg > store.nseg
      \/ itime > store.ntime)
  => /\ pc = "exit"
     /\ exitCode # 0
     /\ err \in {"IndexExit", "VarExit"}
     /\ branch = "none"
     /\ bound = {}
     /\ mapReads = 0
     /\ NoArtifact

C7_Witness ==
  /\ pc = "exit"
  /\ exitCode = 1
  /\ InList(varName, store.varlist)
  /\ iseg = Sentinel
  /\ itime > store.ntime
  /\ branch = "none"

(* C8: a concrete segment is accepted exactly when it lies in [1, nseg]    *)
(* and a concrete time exactly when it lies in [0, ntime): a finished call *)
(* ends in an index error exactly when a concrete coordinate lies outside  *)
(* its range.                                                              *)
IndexFailure == err \in {"IndexExit", "IndexError"}

C8_Ranges ==
  (/\ Called
   /\ pc \in {"done", "exit"}
   /\ InList(varName, store.varlist)
   /\ iseg # Sentinel
   /\ itime # Sentinel)
  => (IndexFailure <=> ~(SegOk(store, iseg) /\ TimeOk(store, itime)))

(* C9: when -p or -t is omitted, main passes the sentinel for that         *)
(* coordinate, and with both omitted the both-unspecified search runs.     *)
C9_DefaultSentinel ==
  pc # "main"
  => /\ ~argv.hasP => iseg = Sentinel
     /\ ~argv.hasT => itime = Sentinel
     /\ (~argv.hasP /\ ~argv.hasT /\ branch # "none") => branch = "both"

(* C10: the field has one entry per grid cell; an active cell's entry is   *)
(* the variable's value at the resolved time for the cell's segment, an    *)
(* inactive cell's entry is not-a-number.                                  *)
C10_Field ==
  (pc \in {"hisfig", "mapfig", "json", "obj", "done"} /\ Called)
  => /\ DOMAIN dataMap = Cells(grid)
     /\ \A c \in Cells(grid) :
          dataMap[c] = IF grid.gridIndex[c] > 0
                       THEN ValAt(grid.gridIndex[c], jtime)
                       ELSE NaN

(* The current invocation has written the objective record.                *)
WroteObj == pc = "done" /\ "obj" \in wrote

(* The chosen variable at the resolved time on the active cells.           *)
ActiveField == [c \in ActiveCells(grid) |-> ValAt(grid.gridIndex[c], jtime)]

(* C11: the mean written by saveObj is the arithmetic mean of the chosen   *)
(* variable at the resolved time over exactly the active cells that hold a *)
(* number: its sum and its count are those of the active cells, inactive   *)
(* cells add to neither.                                                   *)
C11_ActiveMean ==
  WroteObj =>
    /\ objFile.sum = NanSum(ActiveField)
    /\ objFile.cnt = NanCount(ActiveField)

(* The current invocation has extracted the series and the field.          *)
Extracted == Called /\ pc \in {"hisfig", "mapfig", "json", "obj", "done"}

(* C12: the series is the chosen variable at the resolved segment for all  *)
(* ntime steps in chronological order; the maximum written by saveObj is   *)
(* the greatest of its entries that are numbers; and when the time was     *)
(* resolved by search (both coordinates unspecified, or the segment given  *)
(* and the time unspecified) it is the value at the resolved pair.         *)
C12_SeriesMax ==
  /\ Extracted => dataHis = [t \in Times |-> ValAt(jseg, t)]
  /\ WroteObj =>
       /\ (\E t \in Times : ~IsNaN(ValAt(jseg, t))) =>
            /\ \E t \in Times : objFile.max = ValAt(jseg, t)
            /\ ~IsNaN(objFile.max)
            /\ \A t \in Times : IsNaN(ValAt(jseg, t)) \/ ValAt(jseg, t) <= objFile.max
       /\ branch \in {"both", "time"} => objFile.max = ValAt(jseg, jtime)

C12_Witness ==
  /\ WroteObj
  /\ branch = "both"
  /\ jtime = 1
  /\ IsNaN(ValAt(jseg, 0))
  /\ objFile.max = ValAt(jseg, jtime)

(* C13: when the field or the series handed to saveObj holds no number,    *)
(* computing the summary fails with an empty-reduction error and no        *)
(* objective record is written.                                            *)
C13_EmptyReduction ==
  ("obj" \in wrote /\ (NanCount(dataMap) = 0 \/ AllNaN(dataHis, store.ntime))) =>
    /\ pc = "exit"
    /\ err = "ValueError:empty"
    /\ ~objFile.written

AllFour == {"his", "map", "json", "obj"}

(* A run that failed has opened no artifact, and no objective file is      *)
(* left opened but empty.                                                  *)
FailureWritesNothing ==
  /\ pc = "exit" => wrote = {}
  /\ (pc = "exit" /\ run = 1) => NoArtifact
  /\ ~(objFile.exists /\ ~objFile.written)

(* C14, as stated: a run that ends in a failure has created or modified no *)
(* artifact, the objective file is never left opened but empty, and a      *)
(* successful run writes all four artifacts.                               *)
C14_Original ==
  /\ FailureWritesNothing
  /\ (pc = "done" /\ Called) => wrote = AllFour

(* C14, amended: a run that ends in a failure has created or modified no   *)
(* artifact, the objective file is never left opened but empty, and a      *)
(* successful run writes both plots and the JSON document, and the         *)
(* objective record unless an objective file was already there.            *)
C14_NoPartialWrite ==
  /\ FailureWritesNothing
  /\ (pc = "done" /\ Called) =>
       /\ AllFour \ {"obj"} \subseteq wrote
       /\ "obj" \notin wrote => objFile.written

C14_Witness ==
  /\ pc = "exit"
  /\ run = 2
  /\ err = "NameError" \/ err = "IndexExit"
  /\ hisFig.exists
  /\ wrote = {}

(* C15: for every valid (seg, v, t) the segment accessor and the           *)
(* variable-time accessor give the same value, so that the series at the   *)
(* resolved time equals the field's entry at the grid cell whose segment   *)
(* id is the resolved segment.                                             *)
C15_CrossView ==
  /\ \A seg \in 1..store.nseg : \A v \in DOMAIN store.varlist : \A t \in Times :
       AtSegment(store, seg)[v][t] = AtVariableTime(store, v, t)[seg]
  /\ Extracted =>
       \A c \in ActiveCells(grid) :
         grid.gridIndex[c] = jseg => dataMap[c] = dataHis[jtime]

(* Row-major position of a cell.                                           *)
CellPos(c) == c[1] * grid.ncol + c[2]

PairVal(p) == ValAt(grid.gridIndex[p[1]], p[2])

(* The (active cell, time) pairs that hold the greatest number.            *)
TopPairs ==
  LET P == {p \in ActiveCells(grid) \X Times : ~IsNaN(PairVal(p))} IN
  {p \in P : \A q \in P : PairVal(q) <= PairVal(p)}

IsResolved(p) == grid.gridIndex[p[1]] = jseg /\ p[2] = jtime

(* p comes no later than q when cells are compared first, times second.    *)
CellFirst(p, q) ==
  \/ CellPos(p[1]) < CellPos(q[1])
  \/ p[1] = q[1] /\ p[2] <= q[2]

(* p comes no later than q when times are compared first, cells second.    *)
TimeFirst(p, q) ==
  \/ p[2] < q[2]
  \/ p[2] = q[2] /\ CellPos(p[1]) <= CellPos(q[1])

(* C16, as stated: in the both-unspecified search the resolved pair is,    *)
(* among the pairs that share the greatest value, the first in row-major   *)
(* cell order, time order deciding only among pairs of the same cell.      *)
C16_Original ==
  (branch = "both" /\ Bound2) =>
    \E p \in TopPairs : IsResolved(p) /\ \A q \in TopPairs : CellFirst(p, q)

(* C16, amended: the resolved pair is, among the pairs that share the      *)
(* greatest value, the first in time order, row-major cell order deciding  *)
(* only among pairs of the same time step.                                 *)
C16_TieBreak ==
  (branch = "both" /\ Bound2) =>
    \E p \in TopPairs : IsResolved(p) /\ \A q \in TopPairs : TimeFirst(p, q)

C16_Witness ==
  /\ branch = "both"
  /\ Bound2
  /\ \E p \in TopPairs : \E q \in TopPairs :
       IsResolved(p) /\ CellPos(q[1]) < CellPos(p[1]) /\ q[2] > p[2]

(* C17: whenever readD3DWaq reaches the extraction, after any branch, the  *)
(* resolved segment is an id in [1, nseg] carried by an active grid cell   *)
(* and the resolved time lies in [0, ntime); neither is unbound or the     *)
(* sentinel.                                                               *)
C17_ResolvedValid ==
  (Called /\ (pc = "extract" \/ Extracted)) =>
    /\ Bound2
    /\ jseg \in 1..store.nseg
    /\ \E c \in ActiveCells(grid) : grid.gridIndex[c] = jseg
    /\ jtime \in Times

(* The time steps a segment search looks at.                               *)
SearchedTimes == IF branch = "both" THEN Times ELSE {itime}

(* C18: in the two segment-search branches only inactive cells are left    *)
(* out: on every grid with an active cell that holds a number, whatever    *)
(* its sign or size, the search resolves a segment of an active cell.      *)
C18_AnyValueResolves ==
  (/\ branch \in {"both", "seg"}
   /\ \E c \in ActiveCells(grid) : \E t \in SearchedTimes :
        ~IsNaN(ValAt(grid.gridIndex[c], t)))
  => /\ Bound2
     /\ err = "none"
     /\ \E c \in ActiveCells(grid) : grid.gridIndex[c] = jseg

(* The plots and the JSON document on disk are those of this invocation.   *)
PlotsOfThisRun ==
  /\ AllFour \ {"obj"} \subseteq wrote
  /\ hisFig = [exists |-> TRUE, nameSeg |-> iseg, titleSeg |-> jseg]
  /\ mapFig = [exists |-> TRUE, nameTime |-> itime, titleTime |-> jtime]
  /\ jsonDoc = [exists |-> TRUE, nameTime |-> itime, iseg |-> jseg, itime |-> jtime]

(* C19: the objective record is written only when the case directory holds *)
(* no objective file: once the file is there no later step changes it, so  *)
(* after any sequence of successful invocations it holds the record of the *)
(* first; an invocation that writes it writes its own resolved pair; and   *)
(* every successful invocation rewrites the plots and the JSON document.   *)
C19_FirstRecordStays ==
  /\ [][objFile.exists => objFile' = objFile]_vars
  /\ [](WroteObj => objFile = ObjRecord(dataMap, dataHis, store.ntime, jseg, jtime))
  /\ []((pc = "done" /\ Called) => (objFile.written /\ PlotsOfThisRun))

C19_Witness ==
  /\ run = 2
  /\ pc = "done"
  /\ Called
  /\ "obj" \notin wrote
  /\ objFile.written
  /\ objFile # OldObj
  /\ objFile.seg # jseg
  /\ objFile.time # jtime
  /\ hisFig.titleSeg = jseg

(* C20: every artifact of a successful run names the resolved pair: the    *)
(* segment in the series plot's file name and title, the time in the map   *)
(* plot's file name and title and in the JSON document's file name, the    *)
(* JSON fields iseg and itime, and the segment and time of the objective   *)
(* record, also when a coordinate was passed as the sentinel.              *)
C20_SameCoordinates ==
  (pc = "done" /\ Called) =>
    /\ hisFig.nameSeg = jseg
    /\ hisFig.titleSeg = jseg
    /\ mapFig.nameTime = jtime
    /\ mapFig.titleTime = jtime
    /\ jsonDoc.nameTime = jtime
    /\ jsonDoc.iseg = jseg
    /\ jsonDoc.itime = jtime
    /\ WroteObj => (objFile.seg = jseg /\ objFile.time = jtime)

====
